---- MODULE Spec2Model ----
(***************************************************************************)
(* arch/riscv/kernel/cpufeature.c: riscv_fill_hwcap parses the "riscv,isa" *)
(* string of every cpu node, folds the per-hart results into elf_hwcap and *)
(* riscv_isa, and __riscv_isa_extension_available queries the result.      *)
(* Configuration modelled: CONFIG_64BIT, CONFIG_FPU.                       *)
(*                                                                         *)
(* Representation.  A C string is a sequence of one-character strings; the *)
(* pointer isa / ext / ext_end is a 1-based index into it and index        *)
(* Len(s)+1 is the terminating NUL.  An unsigned long used as a bit mask   *)
(* is the set of its set bit positions (|= is \cup, &= is \cap, 0 is {}).  *)
(* An unsigned int is kept at its 32-bit width as two 16-bit limbs.        *)
(***************************************************************************)
EXTENDS Integers, Sequences, FiniteSets

(***************************************************************************)
(* Bounds of the model.                                                    *)
(***************************************************************************)
MaxPieces == 3
MaxUnits == 3

(***************************************************************************)
(* Characters (linux/ctype.h).                                             *)
(***************************************************************************)
NUL == "NUL"

LowerSeq ==
  <<"a","b","c","d","e","f","g","h","i","j","k","l","m",
    "n","o","p","q","r","s","t","u","v","w","x","y","z">>

DigitSeq == <<"0","1","2","3","4","5","6","7","8","9">>

islower(c) == \E k \in 1..26 : LowerSeq[k] = c

isdigit(c) == \E k \in 1..10 : DigitSeq[k] = c

\* c - 'a' for a lower-case c
AlphaIndex(c) == (CHOOSE k \in 1..26 : LowerSeq[k] = c) - 1

\* c - '0' for a digit c
DigitValue(c) == (CHOOSE k \in 1..10 : DigitSeq[k] = c) - 1

\* *p for the pointer p into the string s
At(s, p) == IF p \in 1..Len(s) THEN s[p] ELSE NUL

(***************************************************************************)
(* unsigned int: 32 bits as two limbs, value = hi * Limb + lo.             *)
(***************************************************************************)
Limb == 65536

U32(n) == [hi |-> n \div Limb, lo |-> n % Limb]

UINT_MAX == [hi |-> Limb - 1, lo |-> Limb - 1]

\* a > b
U32Gt(a, b) == a.hi > b.hi \/ (a.hi = b.hi /\ a.lo > b.lo)

\* UINT_MAX - d, for a digit d
U32MaxMinus(d) == [hi |-> UINT_MAX.hi, lo |-> UINT_MAX.lo - d]

\* a / 10
U32Div10(a) ==
  [hi |-> a.hi \div 10, lo |-> (((a.hi % 10) * Limb) + a.lo) \div 10]

\* a * 10 + d, in 32 bits
U32Mul10Add(a, d) ==
  LET l == a.lo * 10 + d
  IN  [hi |-> (a.hi * 10 + (l \div Limb)) % Limb, lo |-> l % Limb]

(***************************************************************************)
(* Error numbers returned by _decimal_part_to_uint.                        *)
(***************************************************************************)
EINVAL == "EINVAL"
ERANGE == "ERANGE"
OK == "0"

RECURSIVE DecimalLoop_late(_, _, _, _)
\* mutant: the range check leaves the digit out: value > UINT_MAX / 10
DecimalLoop_late(s, p, value, res) ==
  LET d == DigitValue(At(s, p))
  IN  IF U32Gt(value, U32Div10(UINT_MAX))
        THEN [rc |-> ERANGE, res |-> res]
        ELSE LET v == U32Mul10Add(value, d)
             IN  IF isdigit(At(s, p + 1))
                   THEN DecimalLoop_late(s, p + 1, v, res)
                   ELSE [rc |-> OK, res |-> v]

RECURSIVE DecimalLoop(_, _, _, _)
\* the do / while loop of _decimal_part_to_uint, with s[p] a digit
DecimalLoop(s, p, value, res) ==
  LET d == DigitValue(At(s, p))
  IN  IF U32Gt(value, U32Div10(U32MaxMinus(d)))
        THEN [rc |-> ERANGE, res |-> res]
        ELSE LET v == U32Mul10Add(value, d)
             IN  IF isdigit(At(s, p + 1))
                   THEN DecimalLoop(s, p + 1, v, res)
                   ELSE [rc |-> OK, res |-> v]

\* _decimal_part_to_uint(s + p, &res): the return code and the value *res
\* holds afterwards
_decimal_part_to_uint(s, p, res) ==
  IF ~isdigit(At(s, p))
    THEN [rc |-> EINVAL, res |-> res]
    ELSE DecimalLoop(s, p, U32(0), res)

(***************************************************************************)
(* Scans of riscv_fill_hwcap's token loop.                                 *)
(***************************************************************************)
RECURSIVE SkipDigits(_, _)
\* while (isdigit(*++isa)) ; entered with isa = p - 1
SkipDigits(s, p) == IF isdigit(At(s, p)) THEN SkipDigits(s, p + 1) ELSE p

RECURSIVE BackDigits_post(_, _)
\* mutant: while (isdigit(*ext_end--)) ; the pointer ends one character
\* further back
BackDigits_post(s, p) ==
  IF isdigit(At(s, p)) THEN BackDigits_post(s, p - 1) ELSE p - 1

RECURSIVE BackDigits(_, _)
\* while (isdigit(*--ext_end)) ; entered with ext_end = p + 1
BackDigits(s, p) == IF isdigit(At(s, p)) THEN BackDigits(s, p - 1) ELSE p

RECURSIVE LongRun_stop(_, _, _)
\* mutant: the run ends at the first character that is no lower-case letter
\* and no digit, and nothing is flagged
LongRun_stop(s, p, err) ==
  IF islower(At(s, p)) \/ isdigit(At(s, p))
    THEN LongRun_stop(s, p + 1, err)
    ELSE [isa |-> p, ext_err |-> err]

RECURSIVE LongRun(_, _, _)
\* for (; *isa && *isa != '_'; ++isa) if (!islower && !isdigit) ext_err = true
LongRun(s, p, err) ==
  IF At(s, p) # NUL /\ At(s, p) # "_"
    THEN LongRun(s, p + 1, err \/ (~islower(At(s, p)) /\ ~isdigit(At(s, p))))
    ELSE [isa |-> p, ext_err |-> err]

(***************************************************************************)
(* One token: the body of the for loop through the delimiter test that    *)
(* follows the switch.  Each operator returns the loop's locals.           *)
(***************************************************************************)
\* mutant: the two runs of a version pair are stored the wrong way round
LongToken_swap(s, p) ==
  LET run     == LongRun(s, p + 1, FALSE)
      e       == run.isa
      b1      == BackDigits(s, e - 1)
      ext_vpair == At(s, b1) = "p" /\ isdigit(At(s, b1 - 1))
      r1      == _decimal_part_to_uint(s, b1 + 1, UINT_MAX)
      b2      == BackDigits(s, b1 - 1)
      r2      == _decimal_part_to_uint(s, b2 + 1, r1.res)
      base    == [ext |-> p, isa |-> e, ext_end |-> e, ext_long |-> TRUE,
                  ext_major |-> UINT_MAX, ext_minor |-> U32(0),
                  ext_err |-> run.ext_err, ext_err_ver |-> FALSE]
  IN  IF run.ext_err THEN base
      ELSE IF ~isdigit(At(s, e - 1)) THEN base
      ELSE IF ~ext_vpair
        THEN [base EXCEPT !.ext_end = b1 + 1, !.ext_major = r1.res,
                          !.ext_err_ver = (r1.rc # OK)]
        ELSE [base EXCEPT !.ext_end = b2 + 1, !.ext_major = r1.res,
                          !.ext_minor = r2.res,
                          !.ext_err_ver = (r1.rc # OK) \/ (r2.rc # OK)
                                            \/ (r2.res = UINT_MAX)]

\* case 's': case 'x': case 'z': (ext = p, isa = p + 1)
LongToken(s, p) ==
  LET run     == LongRun(s, p + 1, FALSE)
      e       == run.isa
      b1      == BackDigits(s, e - 1)
      ext_vpair == At(s, b1) = "p" /\ isdigit(At(s, b1 - 1))
      r1      == _decimal_part_to_uint(s, b1 + 1, UINT_MAX)
      b2      == BackDigits(s, b1 - 1)
      r2      == _decimal_part_to_uint(s, b2 + 1, r1.res)
      base    == [ext |-> p, isa |-> e, ext_end |-> e, ext_long |-> TRUE,
                  ext_major |-> UINT_MAX, ext_minor |-> U32(0),
                  ext_err |-> run.ext_err, ext_err_ver |-> FALSE]
  IN  IF run.ext_err THEN base
      ELSE IF ~isdigit(At(s, e - 1)) THEN base
      ELSE IF ~ext_vpair
        THEN [base EXCEPT !.ext_end = b1 + 1, !.ext_major = r1.res,
                          !.ext_err_ver = (r1.rc # OK)]
        ELSE [base EXCEPT !.ext_end = b2 + 1, !.ext_minor = r1.res,
                          !.ext_major = r2.res,
                          !.ext_err_ver = (r1.rc # OK) \/ (r2.rc # OK)
                                            \/ (r2.res = UINT_MAX)]

\* mutant: a p that no digit follows is consumed; line 178 is left out
ShortToken_eatp(s, p) ==
  LET r1   == _decimal_part_to_uint(s, p + 1, UINT_MAX)
      j    == SkipDigits(s, p + 2)
      r2   == _decimal_part_to_uint(s, j + 1, U32(0))
      base == [ext |-> p, isa |-> p + 1, ext_end |-> p + 1, ext_long |-> FALSE,
               ext_major |-> UINT_MAX, ext_minor |-> U32(0),
               ext_err |-> FALSE, ext_err_ver |-> FALSE]
      ver  == [base EXCEPT !.ext_major = r1.res,
                           !.ext_err_ver = (r1.res = UINT_MAX), !.isa = j]
  IN  IF ~islower(At(s, p)) THEN [base EXCEPT !.ext_err = TRUE]
      ELSE IF ~isdigit(At(s, p + 1)) THEN base
      ELSE IF At(s, j) # "p" THEN ver
      ELSE IF ~isdigit(At(s, j + 1)) THEN [ver EXCEPT !.isa = j + 1]
      ELSE [ver EXCEPT !.ext_minor = r2.res,
                       !.ext_err_ver = ver.ext_err_ver \/ (r2.rc # OK),
                       !.isa = SkipDigits(s, j + 2)]

\* default: (ext = p, isa = p + 1)
ShortToken(s, p) ==
  LET r1   == _decimal_part_to_uint(s, p + 1, UINT_MAX)
      j    == SkipDigits(s, p + 2)
      r2   == _decimal_part_to_uint(s, j + 1, U32(0))
      base == [ext |-> p, isa |-> p + 1, ext_end |-> p + 1, ext_long |-> FALSE,
               ext_major |-> UINT_MAX, ext_minor |-> U32(0),
               ext_err |-> FALSE, ext_err_ver |-> FALSE]
      ver  == [base EXCEPT !.ext_major = r1.res,
                           !.ext_err_ver = (r1.res = UINT_MAX), !.isa = j]
  IN  IF ~islower(At(s, p)) THEN [base EXCEPT !.ext_err = TRUE]
      ELSE IF ~isdigit(At(s, p + 1)) THEN base
      ELSE IF At(s, j) # "p" THEN ver
      ELSE IF ~isdigit(At(s, j + 1)) THEN ver
      ELSE [ver EXCEPT !.ext_minor = r2.res,
                       !.ext_err_ver = ver.ext_err_ver \/ (r2.rc # OK),
                       !.isa = SkipDigits(s, j + 2)]

\* mutant: the cursor is stepped back twice, onto the token's first character
\* when the token is one letter
ParseToken_twice(s, p) ==
  LET t == IF At(s, p) \in {"s", "x", "z"} THEN LongToken(s, p)
                                             ELSE ShortToken(s, p)
  IN  IF At(s, t.isa) # "_" THEN [t EXCEPT !.isa = t.isa - 2] ELSE t

\* mutant: the cursor is never stepped back, so the character behind every
\* token is skipped as if it were a delimiter
ParseToken_skip(s, p) ==
  IF At(s, p) \in {"s", "x", "z"} THEN LongToken(s, p) ELSE ShortToken(s, p)

\* the switch on the token's first character, then: if the character at
\* isa is not '_', --isa
ParseToken(s, p) ==
  LET t == IF At(s, p) \in {"s", "x", "z"} THEN LongToken(s, p)
                                             ELSE ShortToken(s, p)
  IN  IF At(s, t.isa) # "_" THEN [t EXCEPT !.isa = t.isa - 1] ELSE t

(***************************************************************************)
(* asm/hwcap.h: COMPAT_HWCAP_ISA_x is 1 << ('X' - 'A'), the bit at the     *)
(* letter's alphabet position; RISCV_ISA_EXT_MAX is the bitmap's size.     *)
(***************************************************************************)
COMPAT_HWCAP_ISA_I == {AlphaIndex("i")}
COMPAT_HWCAP_ISA_M == {AlphaIndex("m")}
COMPAT_HWCAP_ISA_A == {AlphaIndex("a")}
COMPAT_HWCAP_ISA_F == {AlphaIndex("f")}
COMPAT_HWCAP_ISA_D == {AlphaIndex("d")}
COMPAT_HWCAP_ISA_C == {AlphaIndex("c")}

RISCV_ISA_EXT_MAX == 64

NUM_ALPHA_EXTS == AlphaIndex("z") - AlphaIndex("a") + 1

\* mutant: the table's d entries filled with the wrong constant
isa2hwcap_slip(c) ==
  CASE c \in {"i", "I"} -> COMPAT_HWCAP_ISA_I
    [] c \in {"m", "M"} -> COMPAT_HWCAP_ISA_M
    [] c \in {"a", "A"} -> COMPAT_HWCAP_ISA_A
    [] c \in {"f", "F"} -> COMPAT_HWCAP_ISA_F
    [] c \in {"d", "D"} -> COMPAT_HWCAP_ISA_C
    [] c \in {"c", "C"} -> COMPAT_HWCAP_ISA_C
    [] OTHER -> {}

\* isa2hwcap[(unsigned char)c], as lines 89-94 fill the table
isa2hwcap(c) ==
  CASE c \in {"i", "I"} -> COMPAT_HWCAP_ISA_I
    [] c \in {"m", "M"} -> COMPAT_HWCAP_ISA_M
    [] c \in {"a", "A"} -> COMPAT_HWCAP_ISA_A
    [] c \in {"f", "F"} -> COMPAT_HWCAP_ISA_F
    [] c \in {"d", "D"} -> COMPAT_HWCAP_ISA_D
    [] c \in {"c", "C"} -> COMPAT_HWCAP_ISA_C
    [] OTHER -> {}

\* mutant: the width prefix is not stripped
StripPrefix_none(s) == 1

\* !strncmp(isa, "rv64", 4): the index of the first character parsed
StripPrefix(s) ==
  IF Len(s) >= 4 /\ SubSeq(s, 1, 4) = <<"r", "v", "6", "4">> THEN 5 ELSE 1

\* mutant: the name compared without the length test
MATCH_EXT_prefix(s, t, name) ==
  /\ t.ext + Len(name) - 1 <= Len(s)
  /\ SubSeq(s, t.ext, t.ext + Len(name) - 1) = name

\* MATCH_EXT(name) on the token t of the string s
MATCH_EXT(s, t, name) ==
  /\ t.ext_end - t.ext = Len(name)
  /\ SubSeq(s, t.ext, t.ext_end - 1) = name

\* the watch list, in the order lines 197-204 test it
WatchList ==
  << <<"h">>, <<"z","b","a">>,
     <<"z","i","h","i","n","t","p","a","u","s","e">>,
     <<"z","k","s","e","d">> >>

\* this_hwcap after line 194
TokenHwcap(s, t, hwcap) ==
  IF t.ext_err THEN hwcap ELSE hwcap \cup isa2hwcap(At(s, t.ext))

\* mutant: the bit of the first letter is set for namespaced tokens too
TokenIsa_long(s, t, isa_word) ==
  IF t.ext_err THEN isa_word
  ELSE isa_word \cup {AlphaIndex(At(s, t.ext))}

\* this_isa after lines 195-196
TokenIsa(s, t, isa_word) ==
  IF t.ext_err \/ t.ext_long THEN isa_word
  ELSE isa_word \cup {AlphaIndex(At(s, t.ext))}

\* the pr_info lines of lines 197-204 for one token
TokenLog(s, t) ==
  IF t.ext_err THEN <<>>
  ELSE SelectSeq(WatchList, LAMBDA name : MATCH_EXT(s, t, name))

\* lines 213-216 and 218-221: fold one hart's word into the running word
FoldWord(acc, this) == IF acc # {} THEN acc \cap this ELSE this

\* mutant: the float-without-double rule left out
FloatRule_keep(hwcap) == hwcap

\* lines 226-229
FloatRule(hwcap) ==
  IF COMPAT_HWCAP_ISA_F \subseteq hwcap /\ ~(COMPAT_HWCAP_ISA_D \subseteq hwcap)
    THEN hwcap \ COMPAT_HWCAP_ISA_F
    ELSE hwcap

\* line 244
FpuEnabled(hwcap) ==
  hwcap \cap (COMPAT_HWCAP_ISA_F \cup COMPAT_HWCAP_ISA_D) # {}

RECURSIVE PrintLoop_j(_, _, _)
\* mutant: the letter is taken at the output index j, not at the bit index i
PrintLoop_j(word, i, str) ==
  IF i < NUM_ALPHA_EXTS
    THEN PrintLoop_j(word, i + 1,
                     IF i \in word THEN Append(str, LowerSeq[Len(str) + 1])
                                   ELSE str)
    ELSE str

RECURSIVE PrintLoop(_, _, _)
\* for (i = 0, j = 0; i < NUM_ALPHA_EXTS; i++) if (word & BIT_MASK(i)) ...
PrintLoop(word, i, str) ==
  IF i < NUM_ALPHA_EXTS
    THEN PrintLoop(word, i + 1,
                   IF i \in word THEN Append(str, LowerSeq[i + 1]) ELSE str)
    ELSE str

\* print_str after lines 231-234 (237-240)
PrintStr(word) == PrintLoop(word, 0, <<>>)

(***************************************************************************)
(* State.                                                                  *)
(*   units          the cpu nodes of the device tree, in the order         *)
(*                  for_each_of_cpu_node visits them: ok is                *)
(*                  riscv_of_processor_hartid(node) >= 0, has_isa is       *)
(*                  whether "riscv,isa" can be read, isa is the string     *)
(*   node           how many nodes the outer loop has taken                *)
(*   pc             the position in riscv_fill_hwcap                       *)
(*   isa            the cursor into the current node's string              *)
(*   this_hwcap, this_isa   the current hart's results                     *)
(*   tok            the locals of the last iteration of the token loop     *)
(*   elf_hwcap, riscv_isa, cpu_hwcap_fpu   the globals                     *)
(*   log            the kernel log lines printed so far                    *)
(*   folded         history: the per-hart results folded so far            *)
(*   qry            the last call of __riscv_isa_extension_available       *)
(***************************************************************************)
VARIABLES units, node, pc, isa, this_hwcap, this_isa, tok,
          elf_hwcap, riscv_isa, cpu_hwcap_fpu, log, folded, qry

vars == <<units, node, pc, isa, this_hwcap, this_isa, tok,
          elf_hwcap, riscv_isa, cpu_hwcap_fpu, log, folded, qry>>

\* the string of the node being parsed
CurIsa == units[node].isa

NoTok ==
  [ext |-> 0, isa |-> 0, ext_end |-> 0, ext_long |-> FALSE,
   ext_major |-> UINT_MAX, ext_minor |-> U32(0),
   ext_err |-> FALSE, ext_err_ver |-> FALSE]

NoQry == [called |-> FALSE, null |-> TRUE, bits |-> {}, bit |-> 0,
          tested |-> FALSE, ret |-> FALSE]

Msg(m, a) == [msg |-> m, arg |-> a]

\* the state after lines 89-98, for the cpu nodes us
Start(us) ==
  /\ units = us
  /\ node = 0
  /\ pc = "node"
  /\ isa = 0
  /\ this_hwcap = {}
  /\ this_isa = {}
  /\ tok = NoTok
  /\ elf_hwcap = {}
  /\ riscv_isa = {}
  /\ cpu_hwcap_fpu = FALSE
  /\ log = <<>>
  /\ folded = <<>>
  /\ qry = NoQry

(***************************************************************************)
(* riscv_fill_hwcap, one action per loop iteration or straight-line block. *)
(***************************************************************************)
\* lines 100-118 without the hart id test of line 104: the string of an
\* unusable node is read like any other
SkipNode_parse ==
  /\ pc = "node"
  /\ node < Len(units)
  /\ ~units[node + 1].ok
  /\ node' = node + 1
  /\ this_hwcap' = {}
  /\ this_isa' = {}
  /\ isa' = StripPrefix(units[node + 1].isa)
  /\ pc' = "token"
  /\ UNCHANGED <<units, tok, elf_hwcap, riscv_isa, cpu_hwcap_fpu, log,
                 folded, qry>>

\* lines 100-105: a node whose hart id is invalid is skipped
SkipNode ==
  /\ pc = "node"
  /\ node < Len(units)
  /\ ~units[node + 1].ok
  /\ node' = node + 1
  /\ this_hwcap' = {}
  /\ this_isa' = {}
  /\ UNCHANGED <<units, pc, isa, tok, elf_hwcap, riscv_isa, cpu_hwcap_fpu,
                 log, folded, qry>>

\* lines 100-110: a node without "riscv,isa" is skipped with a warning
NoIsa ==
  /\ pc = "node"
  /\ node < Len(units)
  /\ units[node + 1].ok
  /\ ~units[node + 1].has_isa
  /\ node' = node + 1
  /\ this_hwcap' = {}
  /\ this_isa' = {}
  /\ log' = Append(log, Msg("no_isa", <<>>))
  /\ UNCHANGED <<units, pc, isa, tok, elf_hwcap, riscv_isa, cpu_hwcap_fpu,
                 folded, qry>>

\* lines 100-118: the string is read and the width prefix stripped
StartNode ==
  /\ pc = "node"
  /\ node < Len(units)
  /\ units[node + 1].ok
  /\ units[node + 1].has_isa
  /\ node' = node + 1
  /\ this_hwcap' = {}
  /\ this_isa' = {}
  /\ isa' = StripPrefix(units[node + 1].isa)
  /\ pc' = "token"
  /\ UNCHANGED <<units, tok, elf_hwcap, riscv_isa, cpu_hwcap_fpu, log,
                 folded, qry>>

\* lines 119-206: one iteration of the token loop, with its ++isa
Token ==
  /\ pc = "token"
  /\ At(CurIsa, isa) # NUL
  /\ LET t == ParseToken(CurIsa, isa)
     IN  /\ tok' = t
         /\ isa' = t.isa + 1
         /\ this_hwcap' = TokenHwcap(CurIsa, t, this_hwcap)
         /\ this_isa' = TokenIsa(CurIsa, t, this_isa)
         /\ log' = log \o [k \in 1..Len(TokenLog(CurIsa, t)) |->
                             Msg("ext", TokenLog(CurIsa, t)[k])]
  /\ UNCHANGED <<units, node, pc, elf_hwcap, riscv_isa, cpu_hwcap_fpu,
                 folded, qry>>

\* lines 119 and 208-222: the string is exhausted and the hart is folded
Fold ==
  /\ pc = "token"
  /\ At(CurIsa, isa) = NUL
  /\ elf_hwcap' = FoldWord(elf_hwcap, this_hwcap)
  /\ riscv_isa' = FoldWord(riscv_isa, this_isa)
  /\ folded' = Append(folded, [isa |-> this_isa, hwcap |-> this_hwcap])
  /\ pc' = "node"
  /\ UNCHANGED <<units, node, isa, this_hwcap, this_isa, tok, cpu_hwcap_fpu,
                 log, qry>>

\* lines 224-229, after the last node
Rule ==
  /\ pc = "node"
  /\ node = Len(units)
  /\ elf_hwcap' = FloatRule(elf_hwcap)
  /\ log' = IF FloatRule(elf_hwcap) # elf_hwcap
              THEN Append(log, Msg("f_without_d", <<>>))
              ELSE log
  /\ pc' = "print"
  /\ UNCHANGED <<units, node, isa, this_hwcap, this_isa, tok, riscv_isa,
                 cpu_hwcap_fpu, folded, qry>>

\* lines 231-241
Present ==
  /\ pc = "print"
  /\ log' = log \o << Msg("isa_exts", PrintStr(riscv_isa)),
                      Msg("elf_caps", PrintStr(elf_hwcap)) >>
  /\ pc' = "fpu"
  /\ UNCHANGED <<units, node, isa, this_hwcap, this_isa, tok, elf_hwcap,
                 riscv_isa, cpu_hwcap_fpu, folded, qry>>

\* lines 243-247
Fpu ==
  /\ pc = "fpu"
  /\ cpu_hwcap_fpu' = (cpu_hwcap_fpu \/ FpuEnabled(elf_hwcap))
  /\ pc' = "done"
  /\ UNCHANGED <<units, node, isa, this_hwcap, this_isa, tok, elf_hwcap,
                 riscv_isa, log, folded, qry>>

(***************************************************************************)
(* __riscv_isa_extension_available(isa_bitmap, bit), called once           *)
(* riscv_fill_hwcap has returned.  test_bit with a negative bit reads      *)
(* outside the bitmap: any value may come back.                            *)
(***************************************************************************)
QueryBitmaps == { {AlphaIndex("i"), AlphaIndex("z"), RISCV_ISA_EXT_MAX - 1} }

QueryBits ==
  {-1, AlphaIndex("i"), AlphaIndex("z"), RISCV_ISA_EXT_MAX - 1,
   RISCV_ISA_EXT_MAX}

\* line 58: the range check
BitTooLarge(bit) == bit >= RISCV_ISA_EXT_MAX

\* the values the call can return
Available(bmap, bit) ==
  IF BitTooLarge(bit) THEN {FALSE}
  ELSE IF bit >= 0 THEN {bit \in bmap}
  ELSE BOOLEAN

Query ==
  /\ pc = "done"
  /\ \E null \in BOOLEAN, bits \in QueryBitmaps, bit \in QueryBits :
       LET bmap == IF null THEN riscv_isa ELSE bits
       IN  \E r \in Available(bmap, bit) :
             qry' = [called |-> TRUE, null |-> null,
                     bits |-> IF null THEN {} ELSE bits,
                     bit |-> bit, tested |-> ~BitTooLarge(bit), ret |-> r]
  /\ UNCHANGED <<units, node, pc, isa, this_hwcap, this_isa, tok, elf_hwcap,
                 riscv_isa, cpu_hwcap_fpu, log, folded>>

Next ==
  \/ SkipNode
  \/ NoIsa
  \/ StartNode
  \/ Token
  \/ Fold
  \/ Rule
  \/ Present
  \/ Fpu
  \/ Query

(***************************************************************************)
(* Inputs: the device trees the model is run on.                           *)
(***************************************************************************)
\* the pieces descriptor strings are built from
Pieces ==
  { <<"r","v","6","4">>,
    <<"i">>,
    <<"f">>,
    <<"d">>,
    <<"h">>,
    <<"p">>,
    <<"z","b","a">>,
    <<"_">>,
    <<"1">>,
    <<"F">>,
    <<"4","2","9","4","9","6","7","2","9","5">>,
    <<"4","2","9","4","9","6","7","2","9","6">> }

\* descriptor strings taken whole
Examples ==
  { <<"r","v","6","4","i","m","a","c">>,
    <<"r","v","6","4","i","m","a","f","d","c","_","z","F","O","O","_","z","b","a">>,
    <<"r","v","6","4","i","_","z","b","a","1","p","0">>,
    <<"z","b","a","1","_","z","b","a">>,
    <<"i","2","p","m">>,
    <<"i","2","p","1">>,
    <<"i","2","_","p","1">>,
    <<"r","_","v","6","4","i">>,
    <<"i","2","p","0","_","m","1","_","p","f">>,
    <<"r","v","6","4","I","M","A","F","D","C">>,
    <<"r","v","6","4","i","Q","m">>,
    <<"r","v","6","4","i","_","z","i","h","i","n","t","p","a","u","s","e","_","z","k","s","e","d">>,
    <<"r","v","3","2","i","m","a","c">>,
    <<"z","b","a","4","2","9","4","9","6","7","2","9","5","p","1">>,
    <<"i","2","p","4","2","9","4","9","6","7","2","9","6","m">>,
    <<"i","0","0","7","p","0","4","2","9","4","9","6","7","2","9","5">>,
    <<"z","b","a","0","4","2","9","4","9","6","7","2","9","6","p","0","1","0">>,
    <<"z","1","p","2","p","3","9">>,
    <<"z","1">>,
    <<"x","1","p","2">> }

\* the descriptor strings of the many-hart device trees
FoldDescs ==
  { <<"r","v","6","4","i","m","a","f","d","c">>,
    <<"r","v","6","4","i","m","a","c">>,
    <<"r","v","6","4","i","f">>,
    <<"i">>,
    <<"d">>,
    <<"f","2","d","_","z","b","a","1","p","0">>,
    <<"h","z","b","a","_","z","b","a">>,
    <<"z","b","a","p","1","_","f">> }

RECURSIVE Concats(_)
\* the strings made of at most n pieces
Concats(n) ==
  IF n = 0 THEN {<<>>}
  ELSE LET shorter == Concats(n - 1)
       IN  shorter \cup {d \o q : d \in shorter, q \in Pieces}

Hart(d) == [ok |-> TRUE, has_isa |-> TRUE, isa |-> d]

\* a node that is not usable, and a node without "riscv,isa"
BadHart == [ok |-> FALSE, has_isa |-> TRUE, isa |-> <<"r","v","6","4","i","f","d">>]
BareHart == [ok |-> TRUE, has_isa |-> FALSE, isa |-> <<>>]

RECURSIVE SeqsUpTo(_, _)
\* the sequences of at most n elements of S
SeqsUpTo(S, n) ==
  IF n = 0 THEN {<<>>}
  ELSE LET shorter == SeqsUpTo(S, n - 1)
       IN  shorter \cup {Append(q, x) : q \in shorter, x \in S}

\* one hart, its string any string of at most MaxPieces pieces or an example
ParseTrees ==
  {<<>>, <<BadHart>>, <<BareHart>>}
    \cup {<<Hart(d)>> : d \in Concats(MaxPieces) \cup Examples}

\* up to MaxUnits nodes, each string one of FoldDescs
FoldTrees ==
  SeqsUpTo({Hart(d) : d \in FoldDescs} \cup {BadHart, BareHart}, MaxUnits)

Init == \E us \in ParseTrees : Start(us)

InitFold == \E us \in FoldTrees : Start(us)

Spec == Init /\ [][Next]_vars

SpecFold == InitFold /\ [][Next]_vars

\* the steps of riscv_fill_hwcap
FillStep ==
  SkipNode \/ NoIsa \/ StartNode \/ Token \/ Fold \/ Rule \/ Present \/ Fpu

\* both families of device trees
InitAll == Init \/ InitFold

SpecAll == InitAll /\ [][Next]_vars

(***************************************************************************)
(* riscv_fill_hwcap as a function of the device tree: the same loops,      *)
(* run to completion.                                                      *)
(***************************************************************************)
RECURSIVE ParseFrom(_, _, _)
\* lines 119-206 from the cursor p on; r holds this_hwcap, this_isa and the
\* lines logged
ParseFrom(s, p, r) ==
  IF At(s, p) = NUL THEN r
  ELSE LET t == ParseToken(s, p)
       IN  ParseFrom(s, t.isa + 1,
                     [hwcap |-> TokenHwcap(s, t, r.hwcap),
                      isa   |-> TokenIsa(s, t, r.isa),
                      exts  |-> r.exts \o TokenLog(s, t)])

\* lines 101-206 for one string
HartResult(s) ==
  ParseFrom(s, StripPrefix(s), [hwcap |-> {}, isa |-> {}, exts |-> <<>>])

RECURSIVE FoldFrom(_, _, _)
\* lines 100-222 from node k on; g holds elf_hwcap and riscv_isa
FoldFrom(us, k, g) ==
  IF k > Len(us) THEN g
  ELSE IF ~us[k].ok \/ ~us[k].has_isa THEN FoldFrom(us, k + 1, g)
  ELSE LET r == HartResult(us[k].isa)
       IN  FoldFrom(us, k + 1,
                    [elf_hwcap |-> FoldWord(g.elf_hwcap, r.hwcap),
                     riscv_isa |-> FoldWord(g.riscv_isa, r.isa)])

\* the globals when riscv_fill_hwcap returns
FillHwcap(us) ==
  LET g == FoldFrom(us, 1, [elf_hwcap |-> {}, riscv_isa |-> {}])
  IN  [elf_hwcap     |-> FloatRule(g.elf_hwcap),
       riscv_isa     |-> g.riscv_isa,
       cpu_hwcap_fpu |-> FpuEnabled(FloatRule(g.elf_hwcap))]

(***************************************************************************)
(* Helpers of the properties.                                              *)
(***************************************************************************)
\* the globals as a record
Globals ==
  [elf_hwcap |-> elf_hwcap, riscv_isa |-> riscv_isa,
   cpu_hwcap_fpu |-> cpu_hwcap_fpu]

\* the harts that contribute: usable and with a descriptor
Contributes(u) == u.ok /\ u.has_isa

Contributing == {k \in 1..Len(units) : Contributes(units[k])}

\* the permutations of the sequence q
Perms(q) ==
  LET n == Len(q)
      bij == {f \in [1..n -> 1..n] : \A i, j \in 1..n : f[i] = f[j] => i = j}
  IN  {[i \in 1..n |-> q[f[i]]] : f \in bij}

\* the stepwise run and the function agree
RunMatchesFunction == pc = "done" => Globals = FillHwcap(units)

(***************************************************************************)
(* C1.  After any sequence of harts the aggregated ISA bitmap and, before  *)
(* the float-without-double rule, the aggregated capability mask are the   *)
(* bitwise intersection of the results of all harts folded so far.         *)
(***************************************************************************)
C1_AggregateIsIntersection ==
  (pc = "node" /\ folded # <<>>) =>
    /\ riscv_isa = {b \in folded[1].isa :
                      \A k \in 1..Len(folded) : b \in folded[k].isa}
    /\ elf_hwcap = {b \in folded[1].hwcap :
                      \A k \in 1..Len(folded) : b \in folded[k].hwcap}

(***************************************************************************)
(* C2.  Every permutation of the harts yields the same frozen ISA bitmap,  *)
(* capability mask and floating-point gate.                                *)
(***************************************************************************)
C2_OrderIndependent ==
  pc = "done" => \A q \in Perms(units) : FillHwcap(q) = Globals

(***************************************************************************)
(* C3.  A token whose version fails to parse is consumed but sets no bit   *)
(* in the hart's ISA bitmap and none in its capability mask, and the scan  *)
(* goes on behind it.                                                      *)
(***************************************************************************)
C3_BadVersionSetsNoBit ==
  [][(Token /\ tok'.ext_err_ver) =>
       /\ this_hwcap' = this_hwcap
       /\ this_isa' = this_isa
       /\ isa' > isa
       /\ pc' = "token"]_vars

(***************************************************************************)
(* C4.  An upper-case I, M, A, F, D or C token adds the capability-mask    *)
(* bit of its lower-case form to the hart's result; any other upper-case   *)
(* character is a malformed token that adds nothing.                       *)
(***************************************************************************)
UpperSeq ==
  <<"A","B","C","D","E","F","G","H","I","J","K","L","M",
    "N","O","P","Q","R","S","T","U","V","W","X","Y","Z">>

isupper(c) == \E k \in 1..26 : UpperSeq[k] = c

tolower(c) == LowerSeq[CHOOSE k \in 1..26 : UpperSeq[k] = c]

LegacyLetters == {"i", "m", "a", "f", "d", "c"}

C4_UpperCaseLegacyAccepted ==
  [][(Token /\ isupper(At(CurIsa, isa))) =>
       LET c == tolower(At(CurIsa, isa))
       IN  IF c \in LegacyLetters
             THEN this_hwcap' = this_hwcap \cup isa2hwcap(c)
             ELSE this_hwcap' = this_hwcap /\ this_isa' = this_isa]_vars

(***************************************************************************)
(* C8.  __riscv_isa_extension_available returns false without reading the *)
(* bitmap for every bit outside 0 .. RISCV_ISA_EXT_MAX-1, negative bits    *)
(* included; for a bit in range it returns that bit of the bitmap given,   *)
(* or of riscv_isa when none is given.                                     *)
(***************************************************************************)
C8_OutOfRangeIsFalse ==
  qry.called =>
    IF qry.bit \in 0..(RISCV_ISA_EXT_MAX - 1)
      THEN qry.ret = (qry.bit \in (IF qry.null THEN riscv_isa ELSE qry.bits))
      ELSE qry.ret = FALSE /\ ~qry.tested

(***************************************************************************)
(* What a descriptor string says, read off its text: the grammar of the    *)
(* string, stated without the scanner.  A '_' ends a segment; inside a     *)
(* segment the first s, x or z starts a namespaced token that runs to the  *)
(* segment's end, and every lower-case letter before it other than a       *)
(* version's p is a single-letter token.                                   *)
(***************************************************************************)
LongLetters == {"s", "x", "z"}

\* the first index of the segment that holds index i
SegStart(d, i) ==
  LET us == {k \in StripPrefix(d)..(i - 1) : d[k] = "_"}
  IN  IF us = {} THEN StripPrefix(d)
      ELSE 1 + CHOOSE k \in us : \A m \in us : m <= k

\* index i lies behind the width prefix and in no namespaced token's tail
Outside(d, i) ==
  /\ i \in StripPrefix(d)..Len(d)
  /\ \A k \in SegStart(d, i)..(i - 1) : d[k] \notin LongLetters

\* the letter c (not p, s, x or z) is a single-letter token of d
HasLetter(d, c) == \E i \in 1..Len(d) : d[i] = c /\ Outside(d, i)

\* the index behind the segment that holds index i
SegEnd(d, i) ==
  CHOOSE e \in (i + 1)..(Len(d) + 1) :
    /\ At(d, e) \in {NUL, "_"}
    /\ \A k \in (i + 1)..(e - 1) : d[k] # "_"

\* v is empty, a digit run, or two digit runs with a p between them
IsVersionSuffix(v) ==
  \/ \A k \in 1..Len(v) : isdigit(v[k])
  \/ \E m \in 2..(Len(v) - 1) :
       /\ v[m] = "p"
       /\ \A k \in (1..Len(v)) \ {m} : isdigit(v[k])

\* a token named n starts at index i of d
NamedAt(d, i, n) ==
  /\ Outside(d, i)
  /\ IF d[i] \in LongLetters
       THEN LET e == SegEnd(d, i)
            IN  /\ e - i >= Len(n)
                /\ SubSeq(d, i, i + Len(n) - 1) = n
                /\ IsVersionSuffix(SubSeq(d, i + Len(n), e - 1))
       ELSE n = <<d[i]>>

\* how many tokens named n the string d holds
Occurrences(d, n) == Cardinality({i \in 1..Len(d) : NamedAt(d, i, n)})

RECURSIVE SumOver(_, _)
\* the sum of f[k] over the k in S
SumOver(S, f) ==
  IF S = {} THEN 0
  ELSE LET k == CHOOSE x \in S : TRUE IN f[k] + SumOver(S \ {k}, f)

\* how many tokens named n the contributing harts hold
Seen(n) ==
  SumOver(Contributing, [k \in Contributing |-> Occurrences(units[k].isa, n)])

\* how often the diagnostic of the extension n was printed
Printed(n) ==
  Cardinality({k \in 1..Len(log) : log[k] = Msg("ext", n)})

WatchNames == {WatchList[k] : k \in 1..Len(WatchList)}

\* the text agrees with the scanner on every hart folded
GrammarMatchesScanner ==
  (pc = "token" /\ At(CurIsa, isa) = NUL) =>
    /\ \A c \in {"a","c","d","f","h","i","m"} :
         HasLetter(CurIsa, c) <=> AlphaIndex(c) \in this_isa
    /\ \A n \in WatchNames :
         Occurrences(CurIsa, n) =
           Len(SelectSeq(HartResult(CurIsa).exts, LAMBDA x : x = n))

(***************************************************************************)
(* C5.  Once the float-without-double rule has run, the capability mask    *)
(* never has F without D; and if every contributing hart has an f token    *)
(* and no d token, the frozen mask has no F and cpu_hwcap_fpu is false.    *)
(***************************************************************************)
EveryHartFNoD ==
  \A k \in Contributing :
    HasLetter(units[k].isa, "f") /\ ~HasLetter(units[k].isa, "d")

C5_NoFloatWithoutDouble ==
  /\ pc \in {"print", "fpu", "done"} =>
       ~(COMPAT_HWCAP_ISA_F \subseteq elf_hwcap
           /\ ~(COMPAT_HWCAP_ISA_D \subseteq elf_hwcap))
  /\ (pc = "done" /\ EveryHartFNoD) =>
       /\ elf_hwcap \cap COMPAT_HWCAP_ISA_F = {}
       /\ ~cpu_hwcap_fpu

C5_Witness ==
  /\ pc = "done"
  /\ Cardinality(Contributing) >= 2
  /\ EveryHartFNoD
  /\ \E k \in 1..Len(log) : log[k] = Msg("f_without_d", <<>>)
  /\ elf_hwcap # {}
  /\ ~cpu_hwcap_fpu

(***************************************************************************)
(* C6.  If at least one hart contributes and every contributing hart has   *)
(* an f token and a d token, the frozen capability mask has F and D and    *)
(* cpu_hwcap_fpu is enabled, whatever else the strings hold and in         *)
(* whatever order the harts come.                                          *)
(***************************************************************************)
EveryHartFAndD ==
  \A k \in Contributing :
    HasLetter(units[k].isa, "f") /\ HasLetter(units[k].isa, "d")

C6_FloatAndDoubleSurvive ==
  (pc = "done" /\ Contributing # {} /\ EveryHartFAndD) =>
    /\ COMPAT_HWCAP_ISA_F \cup COMPAT_HWCAP_ISA_D \subseteq elf_hwcap
    /\ cpu_hwcap_fpu

C6_Witness ==
  /\ pc = "done"
  /\ EveryHartFAndD
  /\ \E j, k \in Contributing : units[j].isa # units[k].isa
  /\ \E k \in 1..Len(units) : ~Contributes(units[k])
  /\ COMPAT_HWCAP_ISA_F \cup COMPAT_HWCAP_ISA_D \subseteq elf_hwcap
  /\ cpu_hwcap_fpu

HartParsed == pc = "token" /\ At(CurIsa, isa) = NUL

(***************************************************************************)
(* C9.  As claimed: a string of single-letter tokens, with or without      *)
(* versions, with one '_' between some adjacent tokens, gives the same ISA *)
(* bitmap and capability mask as the same string without any '_'.          *)
(***************************************************************************)
RemoveDelims(d) == SelectSeq(d, LAMBDA c : c # "_")

\* d is one or more single-letter tokens, some followed by one '_'
IsDelimitedLetters(d) ==
  /\ Len(d) > 0
  /\ islower(d[1])
  /\ \A i \in 1..Len(d) :
       IF d[i] = "_" THEN i < Len(d) /\ islower(d[i + 1])
       ELSE (islower(d[i]) /\ d[i] \notin LongLetters) \/ isdigit(d[i])

SameWithoutDelims(d) ==
  LET r == HartResult(RemoveDelims(d))
  IN  r.isa = this_isa /\ r.hwcap = this_hwcap

C9_DelimitersDoNotMatter ==
  (HartParsed /\ IsDelimitedLetters(CurIsa)) => SameWithoutDelims(CurIsa)

(***************************************************************************)
(* C9, amended.  The same, provided that no '_' stands between a version   *)
(* digit and a token p that carries a version (without the '_' that p and  *)
(* its digits are read as the minor version of the token before), and that *)
(* removing the delimiters does not make the string begin with the width   *)
(* prefix rv64.                                                            *)
(***************************************************************************)
DelimsNotNeeded(d) ==
  /\ StripPrefix(RemoveDelims(d)) = StripPrefix(d)
  /\ \A k \in 2..(Len(d) - 2) :
       ~(/\ d[k] = "_"
         /\ isdigit(d[k - 1])
         /\ d[k + 1] = "p"
         /\ isdigit(d[k + 2]))

C9_DelimitersDoNotMatterUnlessNeeded ==
  (HartParsed /\ IsDelimitedLetters(CurIsa) /\ DelimsNotNeeded(CurIsa)) =>
    SameWithoutDelims(CurIsa)

C9_Witness ==
  /\ HartParsed
  /\ IsDelimitedLetters(CurIsa)
  /\ DelimsNotNeeded(CurIsa)
  /\ Cardinality({k \in 1..Len(CurIsa) : CurIsa[k] = "_"}) >= 2
  /\ \E k \in 1..Len(CurIsa) : isdigit(CurIsa[k])
  /\ Cardinality(this_isa) >= 4
  /\ SameWithoutDelims(CurIsa)

(***************************************************************************)
(* C10.  A namespaced token (starting with s, x or z) that holds a         *)
(* character which is neither a lower-case letter nor a digit is absorbed  *)
(* whole, up to the next '_' or the end of the string: it sets no bit and  *)
(* prints no diagnostic, and the hart's result is what the string gives    *)
(* with the malformed tokens taken out.                                    *)
(***************************************************************************)
\* a namespaced token with a malformed character starts at index i of d
BadLongAt(d, i) ==
  /\ Outside(d, i)
  /\ d[i] \in LongLetters
  /\ \E k \in (i + 1)..(SegEnd(d, i) - 1) : ~islower(d[k]) /\ ~isdigit(d[k])

\* d without its malformed namespaced tokens, the delimiters kept
RemoveBad(d) ==
  LET gone == {k \in 1..Len(d) :
                 \E i \in 1..k : BadLongAt(d, i) /\ k < SegEnd(d, i)}
      kept == SelectSeq([k \in 1..Len(d) |-> k], LAMBDA k : k \notin gone)
  IN  [j \in 1..Len(kept) |-> d[kept[j]]]

C10_MalformedLongTokenAbsorbed ==
  [][/\ (Token /\ BadLongAt(CurIsa, isa)) =>
          /\ this_hwcap' = this_hwcap
          /\ this_isa' = this_isa
          /\ log' = log
          /\ isa' = IF At(CurIsa, SegEnd(CurIsa, isa)) = "_"
                      THEN SegEnd(CurIsa, isa) + 1
                      ELSE SegEnd(CurIsa, isa)
     /\ Fold =>
          LET r == HartResult(RemoveBad(CurIsa))
          IN  /\ r.isa = this_isa
              /\ r.hwcap = this_hwcap
              /\ node = 1 =>
                   log = [k \in 1..Len(r.exts) |-> Msg("ext", r.exts[k])]
    ]_vars

C10_Witness ==
  /\ pc = "node"
  /\ node = 1
  /\ \E i \in 1..Len(CurIsa) : BadLongAt(CurIsa, i)
  /\ RemoveBad(CurIsa) # CurIsa
  /\ elf_hwcap = UNION {isa2hwcap(c) : c \in LegacyLetters}
  /\ Printed(<<"z", "b", "a">>) = 1


(***************************************************************************)
(* C11.  Nodes that are not usable, or that have no descriptor, contribute *)
(* nothing: when riscv_fill_hwcap has returned, the ISA bitmap, the        *)
(* capability mask and the floating-point gate are those the routine       *)
(* computes for the same nodes with every such node removed, and when no   *)
(* node contributes the bitmap and the mask are zero and the gate is       *)
(* false.                                                                  *)
(***************************************************************************)
C11_SkippedNodesContributeNothing ==
  pc = "done" =>
    /\ Globals = FillHwcap(SelectSeq(units, Contributes))
    /\ Contributing = {} =>
         /\ riscv_isa = {}
         /\ elf_hwcap = {}
         /\ ~cpu_hwcap_fpu

\* a finished run over an unusable node, a node without a descriptor and a
\* node that contributes, in that order, with the warning of the second
C11_Witness ==
  /\ pc = "done"
  /\ Len(units) = 3
  /\ units[1] = BadHart
  /\ units[2] = BareHart
  /\ Contributes(units[3])
  /\ riscv_isa # {}
  /\ \E k \in 1..Len(log) : log[k] = Msg("no_isa", <<>>)

(***************************************************************************)
(* Decimal numbers, stated on the digits and without the scanner: what a   *)
(* digit run is worth, and whether it fits an unsigned int.                *)
(***************************************************************************)
\* UINT_MAX as it is written
UIntMaxDigits == <<"4", "2", "9", "4", "9", "6", "7", "2", "9", "5">>

RECURSIVE StripZeros(_)
\* the digit run r without its leading zeros, one digit at least
StripZeros(r) ==
  IF Len(r) > 1 /\ r[1] = "0" THEN StripZeros(Tail(r)) ELSE r

\* of two digit runs of one length, a is the larger number
DigitsGt(a, b) ==
  \E k \in 1..Len(a) :
    /\ DigitValue(a[k]) > DigitValue(b[k])
    /\ \A j \in 1..(k - 1) : a[j] = b[j]

\* the number the digit run r writes is at most UINT_MAX
Fits(r) ==
  LET t == StripZeros(r)
  IN  \/ Len(t) < Len(UIntMaxDigits)
      \/ Len(t) = Len(UIntMaxDigits) /\ ~DigitsGt(t, UIntMaxDigits)

RECURSIVE DecimalOf(_)
\* the unsigned int u as it is written, by long division of its two limbs
DecimalOf(u) ==
  IF u.hi = 0 /\ u.lo < 10 THEN <<DigitSeq[u.lo + 1]>>
  ELSE LET r == (u.hi % 10) * Limb + u.lo
       IN  Append(DecimalOf([hi |-> u.hi \div 10, lo |-> r \div 10]),
                  DigitSeq[(r % 10) + 1])

\* the unsigned int u is the number the digit run r writes
IsValueOf(u, r) == DecimalOf(u) = StripZeros(r)

\* the end of the digit run that starts at index p of d
RunEnd(d, p) ==
  CHOOSE e \in p..(Len(d) + 1) :
    /\ ~isdigit(At(d, e))
    /\ \A k \in p..(e - 1) : isdigit(d[k])

(***************************************************************************)
(* C12.  The version of a well-formed namespaced token is read backwards   *)
(* from the token's end: two trailing digit runs with a p between them are *)
(* the major and the minor version and the name ends before the first run, *)
(* one trailing digit run is the major version with minor 0, and without a *)
(* trailing digit run the major version stays UINT_MAX, the minor 0 and    *)
(* the name is the whole token.  So zba1p0 and zba1 have the name zba and  *)
(* the version 1.0, and zba has the name zba and no version.               *)
(***************************************************************************)
\* where the version suffix of the namespaced token at index i of d starts:
\* the longest suffix of the token that is a version
VersionStart(d, i) ==
  LET e == SegEnd(d, i)
  IN  CHOOSE v \in (i + 1)..e :
        /\ IsVersionSuffix(SubSeq(d, v, e - 1))
        /\ \A w \in (i + 1)..(v - 1) : ~IsVersionSuffix(SubSeq(d, w, e - 1))

\* the digit runs of the version suffix v
MajorRun(v) ==
  IF \E m \in 1..Len(v) : v[m] = "p"
    THEN SubSeq(v, 1, (CHOOSE m \in 1..Len(v) : v[m] = "p") - 1)
    ELSE v

MinorRun(v) ==
  IF \E m \in 1..Len(v) : v[m] = "p"
    THEN SubSeq(v, (CHOOSE m \in 1..Len(v) : v[m] = "p") + 1, Len(v))
    ELSE <<>>

\* the token t has the version that the suffix v writes
HasVersion(t, v) ==
  IF v = <<>> THEN t.ext_major = UINT_MAX /\ t.ext_minor = U32(0)
  ELSE (Fits(MajorRun(v)) /\ (MinorRun(v) = <<>> \/ Fits(MinorRun(v)))) =>
         /\ IsValueOf(t.ext_major, MajorRun(v))
         /\ IF MinorRun(v) = <<>> THEN t.ext_minor = U32(0)
            ELSE IsValueOf(t.ext_minor, MinorRun(v))

C12_LongTokenVersion ==
  [][(Token /\ At(CurIsa, isa) \in LongLetters /\ ~BadLongAt(CurIsa, isa)) =>
       LET e    == SegEnd(CurIsa, isa)
           v    == VersionStart(CurIsa, isa)
           text == SubSeq(CurIsa, isa, e - 1)
           name == SubSeq(CurIsa, tok'.ext, tok'.ext_end - 1)
       IN  /\ tok'.ext_long
           /\ tok'.ext = isa
           /\ tok'.ext_end = v
           /\ HasVersion(tok', SubSeq(CurIsa, v, e - 1))
           /\ text = <<"z", "b", "a", "1", "p", "0">> =>
                /\ name = <<"z", "b", "a">>
                /\ tok'.ext_major = U32(1)
                /\ tok'.ext_minor = U32(0)
           /\ text = <<"z", "b", "a", "1">> =>
                /\ name = <<"z", "b", "a">>
                /\ tok'.ext_major = U32(1)
                /\ tok'.ext_minor = U32(0)
           /\ text = <<"z", "b", "a">> =>
                /\ name = <<"z", "b", "a">>
                /\ tok'.ext_major = UINT_MAX
                /\ tok'.ext_minor = U32(0)]_vars

\* the token zba1p0 has been read: name zba, major 1, minor 0
C12_Witness ==
  /\ pc = "token"
  /\ tok.ext_long
  /\ ~tok.ext_err
  /\ SubSeq(CurIsa, tok.ext, SegEnd(CurIsa, tok.ext) - 1)
       = <<"z", "b", "a", "1", "p", "0">>
  /\ SubSeq(CurIsa, tok.ext, tok.ext_end - 1) = <<"z", "b", "a">>
  /\ tok.ext_major = U32(1)
  /\ tok.ext_minor = U32(0)

(***************************************************************************)
(* C13.  For a descriptor made of the width prefix rv64 and unversioned    *)
(* lower-case single-letter tokens, none of them s, x or z, the hart's ISA *)
(* bitmap holds exactly the bits of those letters and the hart's           *)
(* capability mask exactly the bits of those of them that are legacy       *)
(* letters; the prefix adds nothing.  rv64imac gives the bitmap of a, c,   *)
(* i, m and the mask I, M, A, C, and the bitmap is printed as acim.        *)
(***************************************************************************)
\* d is rv64 followed by lower-case letters other than s, x, z
IsPrefixedLetters(d) ==
  /\ Len(d) >= 4
  /\ SubSeq(d, 1, 4) = <<"r", "v", "6", "4">>
  /\ \A k \in 5..Len(d) : islower(d[k]) /\ d[k] \notin LongLetters

\* the letters behind the prefix of d
LettersOf(d) == {d[k] : k \in 5..Len(d)}

rv64imac == <<"r", "v", "6", "4", "i", "m", "a", "c">>

C13_PrefixedLetters ==
  /\ (HartParsed /\ IsPrefixedLetters(CurIsa)) =>
       /\ this_isa = {AlphaIndex(c) : c \in LettersOf(CurIsa)}
       /\ this_hwcap =
            {AlphaIndex(c) : c \in LettersOf(CurIsa) \cap LegacyLetters}
  /\ (pc = "done" /\ units = <<Hart(rv64imac)>>) =>
       /\ riscv_isa = {AlphaIndex(c) : c \in {"a", "c", "i", "m"}}
       /\ elf_hwcap = COMPAT_HWCAP_ISA_I \cup COMPAT_HWCAP_ISA_M
                        \cup COMPAT_HWCAP_ISA_A \cup COMPAT_HWCAP_ISA_C
       /\ \E k \in 1..Len(log) :
            log[k] = Msg("isa_exts", <<"a", "c", "i", "m">>)

\* rv64imac has been parsed, folded and printed
C13_Witness ==
  /\ pc = "done"
  /\ units = <<Hart(rv64imac)>>
  /\ riscv_isa = {AlphaIndex(c) : c \in {"a", "c", "i", "m"}}
  /\ \E k \in 1..Len(log) : log[k] = Msg("isa_exts", <<"a", "c", "i", "m">>)

(***************************************************************************)
(* C14.  riscv_fill_hwcap terminates on every device tree: every iteration *)
(* of the token loop moves the cursor forward by at least one character    *)
(* and never past the terminator, every step of the routine lowers a       *)
(* measure that is bounded below, a step can be taken as long as the       *)
(* routine has not returned, and it returns with a bitmap, a mask and a    *)
(* gate that are defined.                                                  *)
(***************************************************************************)
\* the longest descriptor of the device tree, plus its terminator and one
LoopSpan ==
  LET lens == {Len(units[k].isa) : k \in 1..Len(units)}
  IN  2 + (IF lens = {} THEN 0 ELSE CHOOSE n \in lens : \A m \in lens : m <= n)

\* how far riscv_fill_hwcap is from its return: the nodes left, then the
\* characters left in the current string, then the blocks behind the loop
Distance ==
  CASE pc = "node"  -> 3 + (Len(units) - node) * LoopSpan
    [] pc = "token" -> 4 + (Len(units) - node) * LoopSpan
                         + (Len(CurIsa) + 1 - isa)
    [] pc = "print" -> 2
    [] pc = "fpu"   -> 1
    [] pc = "done"  -> 0

\* a step of riscv_fill_hwcap can be taken; for the body of the token loop
\* this is the loop condition of line 119
CanStep ==
  \/ pc = "token" /\ At(CurIsa, isa) # NUL
  \/ ENABLED (SkipNode \/ NoIsa \/ StartNode \/ Fold \/ Rule \/ Present \/ Fpu)

C14_Terminates ==
  /\ [][Token => (isa < isa' /\ isa' <= Len(CurIsa) + 1)]_vars
  /\ [][FillStep => (Distance' < Distance /\ Distance' >= 0)]_vars
  /\ [](pc # "done" => CanStep)
  /\ [](pc = "done" =>
          /\ riscv_isa \subseteq 0..(RISCV_ISA_EXT_MAX - 1)
          /\ elf_hwcap \subseteq 0..(RISCV_ISA_EXT_MAX - 1)
          /\ cpu_hwcap_fpu \in BOOLEAN)

\* the routine has returned after a token loop that took several iterations
\* on each of several nodes
C14_Witness ==
  /\ pc = "done"
  /\ Len(folded) >= 2
  /\ \A k \in 1..Len(units) : Contributes(units[k]) => Len(units[k].isa) >= 4
  /\ riscv_isa # {}

(***************************************************************************)
(* C15.  Each of the two lines riscv_fill_hwcap prints is exactly the      *)
(* lower-case letters whose bit is set among bits 0..25 of the word, in    *)
(* ascending order and with nothing between them; bits outside 0..25 never *)
(* show.  The first line is printed from the ISA bitmap, the second from   *)
(* the capability mask as the float-without-double rule left it.           *)
(***************************************************************************)
\* str is the word's letters, one per bit set below NUM_ALPHA_EXTS, ascending
IsRendering(str, word) ==
  /\ \A k \in 1..Len(str) : islower(str[k])
  /\ \A k \in 1..(Len(str) - 1) : AlphaIndex(str[k]) < AlphaIndex(str[k + 1])
  /\ {AlphaIndex(str[k]) : k \in 1..Len(str)}
       = word \cap 0..(NUM_ALPHA_EXTS - 1)

\* the indices of the log lines named m
LinesNamed(m) == {k \in 1..Len(log) : log[k].msg = m}

C15_PresenterOutput ==
  /\ \A w \in QueryBitmaps \cup {riscv_isa, elf_hwcap} :
       IsRendering(PrintStr(w), w)
  /\ pc \in {"fpu", "done"} =>
       /\ Cardinality(LinesNamed("isa_exts")) = 1
       /\ Cardinality(LinesNamed("elf_caps")) = 1
       /\ \A k \in LinesNamed("isa_exts") :
            /\ IsRendering(log[k].arg, riscv_isa)
            /\ k + 1 \in LinesNamed("elf_caps")
            /\ LinesNamed("f_without_d") \subseteq 1..(k - 1)
       /\ \A k \in LinesNamed("elf_caps") :
            /\ IsRendering(log[k].arg, elf_hwcap)
            /\ elf_hwcap = FloatRule(elf_hwcap)
            /\ (\E j \in 1..Len(log[k].arg) : log[k].arg[j] = "f") =>
                 (\E j \in 1..Len(log[k].arg) : log[k].arg[j] = "d")
  /\ pc \notin {"fpu", "done"} =>
       LinesNamed("isa_exts") \cup LinesNamed("elf_caps") = {}

\* both lines are printed; the rule has taken f out of the mask and the
\* second line, and the bitmap and the first line keep it
C15_Witness ==
  /\ pc = "done"
  /\ LinesNamed("f_without_d") # {}
  /\ \E k \in LinesNamed("isa_exts") :
       /\ log[k].arg = <<"f", "i">>
       /\ log[k + 1] = Msg("elf_caps", <<"i">>)

(***************************************************************************)
(* C16.  _decimal_part_to_uint returns -EINVAL exactly when it is not      *)
(* positioned on a digit.  Otherwise it reads the longest digit run, and   *)
(* returns 0 with the run's decimal value stored exactly when that value   *)
(* is at most UINT_MAX, leading zeros allowed, and -ERANGE with the        *)
(* result variable unchanged exactly when the value is larger.  The        *)
(* accumulator never wraps: the same holds for every prefix of the run.    *)
(* Checked on every string the token loop is entered with, at every index. *)
(***************************************************************************)
\* the call at index p of the string s, the result variable holding r0
DecimalCallIsRight(s, p, r0) ==
  LET r   == _decimal_part_to_uint(s, p, r0)
      run == SubSeq(s, p, RunEnd(s, p) - 1)
  IN  /\ r.rc \in {OK, EINVAL, ERANGE}
      /\ r.rc = EINVAL <=> ~isdigit(At(s, p))
      /\ r.rc = EINVAL => r.res = r0
      /\ isdigit(At(s, p)) =>
           /\ r.rc = OK <=> Fits(run)
           /\ r.rc = OK => IsValueOf(r.res, run)
           /\ r.rc = ERANGE <=> ~Fits(run)
           /\ r.rc = ERANGE => r.res = r0

\* the digit strings the calls are checked on: runs of at most MaxPieces
\* pieces, which write UINT_MAX, its neighbours and numbers with leading
\* zeros among others
DigitPieces ==
  { <<"0">>, <<"5">>, <<"6">>, SubSeq(UIntMaxDigits, 1, Len(UIntMaxDigits) - 1) }

RECURSIVE DigitRuns(_)
DigitRuns(n) ==
  IF n = 0 THEN {<<>>}
  ELSE LET shorter == DigitRuns(n - 1)
       IN  shorter \cup {d \o q : d \in shorter, q \in DigitPieces}

\* one hart whose string is a letter with a digit run as its version
DecimalTrees ==
  {<<BadHart>>, <<BareHart>>}
    \cup {<<Hart(<<c>> \o r)>> : c \in {"i", "z"}, r \in DigitRuns(MaxPieces)}

InitDecimal == \E us \in DecimalTrees : Start(us)

SpecDecimal == InitDecimal /\ [][Next]_vars

C16_DecimalScanner ==
  /\ DecimalOf(UINT_MAX) = UIntMaxDigits
  /\ (pc = "token" /\ tok = NoTok) =>
       \A p \in 1..(Len(CurIsa) + 1) :
         \A q \in (p - 1)..(RunEnd(CurIsa, p) - 1) \cup {Len(CurIsa)} :
           \A r0 \in {UINT_MAX, U32(0)} :
             DecimalCallIsRight(SubSeq(CurIsa, 1, q), p, r0)

\* the version of the token i04294967296 has been read: the call on the run
\* returned -ERANGE and left the major version as it was, and the call two
\* digits further on, where the run is worth 294967296, succeeds
C16_Witness ==
  /\ pc = "token"
  /\ tok # NoTok
  /\ ~tok.ext_long
  /\ tok.ext_err_ver
  /\ tok.ext_major = UINT_MAX
  /\ At(CurIsa, 2) = "0"
  /\ _decimal_part_to_uint(CurIsa, 2, U32(0)) = [rc |-> ERANGE, res |-> U32(0)]
  /\ _decimal_part_to_uint(CurIsa, 4, U32(0)).rc = OK
  /\ IsValueOf(_decimal_part_to_uint(CurIsa, 4, U32(0)).res,
               <<"2", "9", "4", "9", "6", "7", "2", "9", "6">>)

(***************************************************************************)
(* C17.  The version of a single-letter token is read forwards: the digit  *)
(* run behind the letter is the major version; a p behind that run is read *)
(* as the start of the minor version only when a digit follows it, and is  *)
(* otherwise left to be the next token.  So i2pm sets the bits of i, p and *)
(* m with i at version 2.0, and in i2p1 the 1 is the minor version of i    *)
(* and no bit of p is set.                                                 *)
(***************************************************************************)
i2pm == <<"i", "2", "p", "m">>

i2p1 == <<"i", "2", "p", "1">>

\* the token that starts with the lower-case letter at index i of d (not s, x
\* or z) is read into t, leaving the cursor at c
ShortTokenIsRight(d, i, t, c) ==
  LET e1  == RunEnd(d, i + 1)
      D1  == SubSeq(d, i + 1, e1 - 1)
      pair == D1 # <<>> /\ At(d, e1) = "p" /\ isdigit(At(d, e1 + 1))
      e2  == RunEnd(d, e1 + 1)
      D2  == SubSeq(d, e1 + 1, e2 - 1)
      end == IF pair THEN e2 ELSE e1
  IN  /\ t.ext = i /\ t.ext_end = i + 1
      /\ ~t.ext_long /\ ~t.ext_err
      /\ c = (IF At(d, end) = "_" THEN end + 1 ELSE end)
      /\ D1 = <<>> => t.ext_major = UINT_MAX
      /\ (D1 # <<>> /\ Fits(D1)) => IsValueOf(t.ext_major, D1)
      /\ ~pair => t.ext_minor = U32(0)
      /\ (pair /\ Fits(D2)) => IsValueOf(t.ext_minor, D2)

C17_ShortTokenVersion ==
  /\ [][(Token /\ islower(At(CurIsa, isa))
               /\ At(CurIsa, isa) \notin LongLetters) =>
          /\ ShortTokenIsRight(CurIsa, isa, tok', isa')
          /\ this_isa' = this_isa \cup {AlphaIndex(At(CurIsa, isa))}]_vars
  /\ []((HartParsed /\ CurIsa = i2pm) =>
          this_isa = {AlphaIndex("i"), AlphaIndex("p"), AlphaIndex("m")})
  /\ []((HartParsed /\ CurIsa = i2p1) => this_isa = {AlphaIndex("i")})
  /\ []((pc = "token" /\ CurIsa \in {i2pm, i2p1} /\ tok # NoTok /\ tok.ext = 1)
          => (/\ tok.ext_major = U32(2)
              /\ tok.ext_minor = (IF CurIsa = i2p1 THEN U32(1) ELSE U32(0))
              /\ At(CurIsa, isa) = (IF CurIsa = i2p1 THEN NUL ELSE "p")))

\* the token i of i2pm has been read at version 2.0 and the cursor is on the
\* p, which is the next token
C17_Witness ==
  /\ pc = "token"
  /\ CurIsa = i2pm
  /\ tok # NoTok /\ tok.ext = 1
  /\ tok.ext_major = U32(2)
  /\ tok.ext_minor = U32(0)
  /\ At(CurIsa, isa) = "p"
  /\ this_isa = {AlphaIndex("i")}

(***************************************************************************)
(* C18.  When riscv_fill_hwcap has returned, every legacy bit of the       *)
(* capability mask has its letter's bit in the ISA bitmap, whatever the    *)
(* device tree.                                                            *)
(***************************************************************************)
C18_MaskWithinBitmap ==
  pc = "done" =>
    \A c \in LegacyLetters :
      isa2hwcap(c) \subseteq elf_hwcap => AlphaIndex(c) \in riscv_isa

(***************************************************************************)
(* C19.  Namespaced tokens set no bit: in every state riscv_isa has no bit *)
(* at the positions of s, x and z and none at position 26 or above, and    *)
(* __riscv_isa_extension_available(NULL, bit) is false for each such bit,  *)
(* also when every hart's string holds zba.                                *)
(***************************************************************************)
\* the bit positions that stand for no single-letter extension
NoLetterBits ==
  {AlphaIndex(c) : c \in LongLetters}
    \cup NUM_ALPHA_EXTS..(RISCV_ISA_EXT_MAX - 1)

C19_NoNamespacedBits ==
  /\ riscv_isa \cap NoLetterBits = {}
  /\ this_isa \cap NoLetterBits = {}
  /\ riscv_isa \subseteq 0..(NUM_ALPHA_EXTS - 1)
  /\ (qry.called /\ qry.null
        /\ (qry.bit \in NoLetterBits \/ qry.bit >= RISCV_ISA_EXT_MAX)) =>
       ~qry.ret

\* every hart's string holds zba, the bitmap is not empty, and the host
\* bitmap has been asked for the bit at the position of z
C19_Witness ==
  /\ pc = "done"
  /\ Len(units) >= 2
  /\ \A k \in 1..Len(units) :
       /\ Contributes(units[k])
       /\ Occurrences(units[k].isa, <<"z", "b", "a">>) >= 1
  /\ riscv_isa # {}
  /\ qry.called /\ qry.null
  /\ qry.bit = AlphaIndex("z")
  /\ ~qry.ret

(***************************************************************************)
(* The characters one iteration of the token loop reads, as sets of        *)
(* indices into the string: index Len + 1 is the terminator, every other   *)
(* index outside 1 .. Len is outside the string.                           *)
(***************************************************************************)
RECURSIVE DecimalLoopReads(_, _, _)
\* the do / while loop of _decimal_part_to_uint, with s[p] a digit
DecimalLoopReads(s, p, value) ==
  LET d == DigitValue(At(s, p))
  IN  IF U32Gt(value, U32Div10(U32MaxMinus(d))) THEN {p}
      ELSE IF isdigit(At(s, p + 1))
        THEN {p, p + 1} \cup DecimalLoopReads(s, p + 1, U32Mul10Add(value, d))
        ELSE {p, p + 1}

\* _decimal_part_to_uint(s + p, ...)
DecimalReads(s, p) ==
  IF ~isdigit(At(s, p)) THEN {p} ELSE DecimalLoopReads(s, p, U32(0))

\* lines 141-159: the backward scan of the namespaced token that starts at p
BackwardReads(s, p) ==
  LET run == LongRun(s, p + 1, FALSE)
      e   == run.isa
      b1  == BackDigits(s, e - 1)
      ext_vpair == At(s, b1) = "p" /\ isdigit(At(s, b1 - 1))
      b2  == BackDigits(s, b1 - 1)
  IN  IF run.ext_err THEN {}
      ELSE IF ~isdigit(At(s, e - 1)) THEN {e - 1}
      ELSE b1..(e - 1)
             \cup (IF At(s, b1) = "p" THEN {b1 - 1} ELSE {})
             \cup (IF ext_vpair THEN b2..(b1 - 1) ELSE {})

\* lines 127-160
LongReads(s, p) ==
  LET run == LongRun(s, p + 1, FALSE)
      e   == run.isa
      b1  == BackDigits(s, e - 1)
      ext_vpair == At(s, b1) = "p" /\ isdigit(At(s, b1 - 1))
      b2  == BackDigits(s, b1 - 1)
  IN  (p..e) \cup BackwardReads(s, p)
        \cup (IF run.ext_err \/ ~isdigit(At(s, e - 1)) THEN {}
              ELSE DecimalReads(s, b1 + 1)
                     \cup (IF ext_vpair THEN DecimalReads(s, b2 + 1) ELSE {}))

\* lines 161-185
ShortReads(s, p) ==
  LET j == SkipDigits(s, p + 2)
  IN  IF ~islower(At(s, p)) THEN {p}
      ELSE IF ~isdigit(At(s, p + 1)) THEN {p, p + 1}
      ELSE {p} \cup DecimalReads(s, p + 1) \cup (p + 1)..j
             \cup (IF At(s, j) # "p" THEN {}
                   ELSE IF ~isdigit(At(s, j + 1)) THEN {j + 1}
                   ELSE DecimalReads(s, j + 1)
                          \cup (j + 1)..SkipDigits(s, j + 2))

\* lines 119-206: the switch, the delimiter test, the table, MATCH_EXT and
\* the loop condition that follows the ++isa
TokenReads(s, p) ==
  LET long == At(s, p) \in {"s", "x", "z"}
      t0   == IF long THEN LongToken(s, p) ELSE ShortToken(s, p)
      t    == ParseToken(s, p)
  IN  (IF long THEN LongReads(s, p) ELSE ShortReads(s, p))
        \cup {t0.isa, t.isa + 1}
        \cup (IF t.ext_err THEN {} ELSE t.ext..(t.ext_end - 1))

(***************************************************************************)
(* C20.  The scanner never reads outside the string: the cursor is never   *)
(* behind the terminator, no iteration of the token loop reads before the  *)
(* string's first character or behind its terminator, the backward scan of *)
(* a namespaced token never reads before the token's first character, and  *)
(* for every token that is not malformed ext < ext_end <= isa, isa being    *)
(* the cursor the next iteration starts with.                              *)
(***************************************************************************)
C20_ReadsStayInside ==
  /\ [](pc = "token" => isa \in 1..(Len(CurIsa) + 1))
  /\ [][Token =>
          /\ TokenReads(CurIsa, isa) \subseteq 1..(Len(CurIsa) + 1)
          /\ At(CurIsa, isa) \in LongLetters =>
               BackwardReads(CurIsa, isa) \subseteq isa..Len(CurIsa)
          /\ tok'.ext >= 1
          /\ ~tok'.ext_err =>
               (tok'.ext < tok'.ext_end /\ tok'.ext_end <= isa')]_vars

\* a namespaced token with a version pair at the very start of the string
\* has been read backwards down to its second character
C20_Witness ==
  /\ pc = "token"
  /\ tok # NoTok
  /\ tok.ext = 1
  /\ tok.ext_long /\ ~tok.ext_err
  /\ tok.ext_end = 2
  /\ tok.ext_minor # U32(0)
  /\ 1 \in BackwardReads(CurIsa, 1)
  /\ At(CurIsa, isa) = NUL
====
